---- MODULE Spec2Model ----
(***************************************************************************)
(* Model of repo_zip_to_txt.py: generate_repository_description unpacks a  *)
(* .zip into a temporary directory, resolves the repository root, walks    *)
(* the tree applying exclusion patterns, renders every listed file and     *)
(* saves the report.                                                       *)
(*                                                                         *)
(* Names and patterns are sequences of one-character strings.  A path is a *)
(* sequence of names below the temporary directory (<<>> is the temporary  *)
(* directory itself).  File contents are  pad  bytes 0x41 followed by the  *)
(* bytes of  tail , so that the 1024-byte probe and the KB limit keep the  *)
(* program's own magnitudes.  Path separators and line endings are those   *)
(* of a POSIX build (os.sep = "/", os.linesep = "\n").                     *)
(***************************************************************************)
EXTENDS Naturals, Integers, Sequences, FiniteSets, TLC

\* ------------------------------------------------------------------ bounds
MaxDepth == 2
MaxDirs == 3
MaxFiles == 2
MaxPatterns == 2
MaxTail == 2

\* ------------------------------------------------------- input universes
DirNames == { <<"D">>, <<"s">> }
FileNames == { <<"a", ".", "l">>, <<"a", ".", "l", ".", "b">> }
PatternUniverse ==
    { <<"D">>, <<"*", ".", "l">>, <<"D", "/", "*">>, <<"?">> }
\* bytes a file's tail is drawn from: NUL, LF, CR, "A", 0xC3 0xA9 (UTF-8 for
\* U+00E9) and 0xFF (never valid in UTF-8)
ByteUniverse == { 0, 10, 13, 65, 195, 169, 255 }
PadUniverse == { 0, 1023, 1024, 2048 }
NoLimit == -1
LimitUniverse == { NoLimit, 0, 1, 2 }
ScanOrders == { "asc", "desc" }
ZipBaseName == <<"z">>

\* ------------------------------------------------------------ characters
\* code point of the characters names and patterns are made of (str order)
Ord(c) ==
    CASE c = "*" -> 42
      [] c = "." -> 46
      [] c = "/" -> 47
      [] c = "?" -> 63
      [] c = "D" -> 68
      [] c = "a" -> 97
      [] c = "b" -> 98
      [] c = "g" -> 103
      [] c = "l" -> 108
      [] c = "s" -> 115
      [] c = "z" -> 122

RECURSIVE StrLess(_, _)
\* Python's str ordering: lexicographic by code point, a proper prefix first
StrLess(a, b) ==
    IF b = <<>> THEN FALSE
    ELSE IF a = <<>> THEN TRUE
    ELSE IF Head(a) = Head(b) THEN StrLess(Tail(a), Tail(b))
    ELSE Ord(Head(a)) < Ord(Head(b))

RECURSIVE InsertSorted(_, _)
InsertSorted(x, s) ==
    IF s = <<>> THEN <<x>>
    ELSE IF StrLess(Head(s), x) THEN <<Head(s)>> \o InsertSorted(x, Tail(s))
    ELSE <<x>> \o s

RECURSIVE list_sort(_)
\* list.sort() on a list of names
list_sort(s) ==
    IF s = <<>> THEN <<>> ELSE InsertSorted(Head(s), list_sort(Tail(s)))

Reverse(s) == [i \in 1..Len(s) |-> s[Len(s) + 1 - i]]

RECURSIVE SetToSeq(_)
SetToSeq(S) ==
    IF S = {} THEN <<>>
    ELSE LET x == CHOOSE y \in S : TRUE IN <<x>> \o SetToSeq(S \ {x})

SeqToSet(s) == { s[i] : i \in 1..Len(s) }

RECURSIVE SelectNames(_, _)
\* the names of s accepted by keep, in the order of s
SelectNames(s, keep) ==
    IF s = <<>> THEN <<>>
    ELSE IF Head(s) \in keep THEN <<Head(s)>> \o SelectNames(Tail(s), keep)
    ELSE SelectNames(Tail(s), keep)

\* ----------------------------------------------------------------- paths
RECURSIVE JoinSlash(_)
\* the components of a relative path joined by "/", as a character string
JoinSlash(p) ==
    IF p = <<>> THEN <<>>
    ELSE IF Len(p) = 1 THEN p[1]
    ELSE p[1] \o <<"/">> \o JoinSlash(Tail(p))

IsPrefix(p, q) == Len(p) <= Len(q) /\ SubSeq(q, 1, Len(p)) = p

\* os.path.relpath(path, start) for a path at or below start, as components
relpath(path, start) == SubSeq(path, Len(start) + 1, Len(path))

\* relpath(...).replace(os.sep, '/') as a character string; "." for start
relpath_str(path, start) ==
    IF path = start THEN <<".">> ELSE JoinSlash(relpath(path, start))

basename(path) == path[Len(path)]

Parent(path) == SubSeq(path, 1, Len(path) - 1)

RECURSIVE fnmatch(_, _)
\* fnmatch.fnmatch on a POSIX build (case-sensitive, whole-string match):
\* "*" matches any run of characters, "/" included; "?" matches one
\* character; any other character matches itself
fnmatch(name, pat) ==
    IF pat = <<>> THEN name = <<>>
    ELSE IF Head(pat) = "*"
         THEN \E k \in 0..Len(name) :
                  fnmatch(SubSeq(name, k + 1, Len(name)), Tail(pat))
    ELSE IF name = <<>> THEN FALSE
    ELSE IF Head(pat) = "?" THEN fnmatch(Tail(name), Tail(pat))
    ELSE Head(name) = Head(pat) /\ fnmatch(Tail(name), Tail(pat))

\* --------------------------------------------------------------- state
VARIABLES
    pc,                  \* position in generate_repository_description
    result,              \* the returned bool ("none" before return)
    exit_reason,         \* which return statement was taken
    fs_dirs,             \* directories extracted below the temporary directory
    fs_files,            \* extracted files: path -> [pad, tail, io]
    scan_order,          \* order in which os.scandir enumerates entries
    exclude_patterns,
    max_file_size_kb,
    temp_created,        \* tempfile.TemporaryDirectory was entered
    temp_exists,         \* the temporary directory is on disk
    repo_root_in_temp,
    repo_display_name,
    items_to_walk,       \* list(os.walk(...)): records [root, dirs, files]
    walk_i,              \* index of the next item of items_to_walk
    structure_lines,
    files_to_process,    \* records [rel_path_header, full_path]
    total_dirs,
    total_files,
    excluded_dirs_count,
    excluded_files_count,
    output_lines,
    processed_files,
    skipped_binary,
    skipped_size,
    read_errors,
    open_calls,          \* full paths open() was called on, in call order
    written              \* what outfile.write stored (<<>> before the write)

vars ==
    << pc, result, exit_reason, fs_dirs, fs_files, scan_order,
       exclude_patterns, max_file_size_kb, temp_created, temp_exists,
       repo_root_in_temp, repo_display_name, items_to_walk, walk_i,
       structure_lines, files_to_process, total_dirs, total_files,
       excluded_dirs_count, excluded_files_count, output_lines,
       processed_files, skipped_binary, skipped_size, read_errors,
       open_calls, written >>

inputVars ==
    << fs_dirs, fs_files, scan_order, exclude_patterns, max_file_size_kb >>

walkVars ==
    << items_to_walk, walk_i, structure_lines, files_to_process, total_dirs,
       total_files, excluded_dirs_count, excluded_files_count >>

renderVars ==
    << processed_files, skipped_binary, skipped_size, read_errors,
       open_calls >>

\* one entry of structure_lines or output_lines.  kind says which f-string
\* produced it; the other fields are the values interpolated into it
\* (path is the entry the line stands for, kept to tell equal names apart)
Line(kind, hdr, path, name, n1, n2, chars) ==
    [kind |-> kind, hdr |-> hdr, path |-> path, name |-> name,
     n1 |-> n1, n2 |-> n2, chars |-> chars]

PlainLine(kind) == Line(kind, <<>>, <<>>, <<>>, 0, 0, <<>>)

\* ---------------------------------------------------- exclusion matcher
is_excluded_basename_only(path_to_check, relative_to) ==
    \E pattern \in exclude_patterns :
        fnmatch(basename(path_to_check), pattern)

\* is_excluded: some pattern matches the root-relative path or the basename
is_excluded(path_to_check, relative_to) ==
    IF exclude_patterns = {} THEN FALSE
    ELSE \E pattern \in exclude_patterns :
             \/ fnmatch(relpath_str(path_to_check, relative_to), pattern)
             \/ fnmatch(basename(path_to_check), pattern)

\* ------------------------------------------------------------- os.walk
ChildDirNames(top) ==
    { basename(d) : d \in { e \in fs_dirs : Len(e) = Len(top) + 1
                                             /\ IsPrefix(top, e) } }

ChildFileNames(top) ==
    { basename(f) : f \in { e \in DOMAIN fs_files : Len(e) = Len(top) + 1
                                                     /\ IsPrefix(top, e) } }

\* os.scandir: the entries in the order the file system hands them out
scandir(names) ==
    IF scan_order = "asc" THEN list_sort(SetToSeq(names))
    ELSE Reverse(list_sort(SetToSeq(names)))

RECURSIVE os_walk(_)
RECURSIVE os_walk_each(_, _)
\* os.walk(top, topdown=True) run to exhaustion: pre-order, every directory
\* of the tree, children in scandir order
os_walk(top) ==
    LET dirs == scandir(ChildDirNames(top))
        files == scandir(ChildFileNames(top))
    IN  << [root |-> top, dirs |-> dirs, files |-> files] >>
            \o os_walk_each(top, dirs)

os_walk_each(top, dirs) ==
    IF dirs = <<>> THEN <<>>
    ELSE os_walk(top \o <<Head(dirs)>>) \o os_walk_each(top, Tail(dirs))

\* ------------------------------------------------------ file contents
\* os.path.getsize
getsize(file) == file.pad + Len(file.tail)

\* b'\0' in fb.read(1024): the pad bytes are 0x41, so a NUL of the chunk is
\* a NUL of the tail that lies within the first n bytes of the file
null_in_first(file, n) ==
    \E i \in 1..Len(file.tail) : file.tail[i] = 0 /\ file.pad + i <= n

null_in_chunk_short(file) == null_in_first(file, 1023)

null_in_chunk(file) == null_in_first(file, 1024)

RECURSIVE utf8_decode(_, _)
\* the utf-8 codec on bytes made of 1- and 2-byte forms (ByteUniverse holds
\* no lead byte of a longer form): code points, or ok = FALSE where
\* errors='strict' raises UnicodeDecodeError; errors='replace' puts U+FFFD
\* (65533) for every byte that starts no valid form
utf8_decode(bytes, errors) ==
    IF bytes = <<>> THEN [ok |-> TRUE, chars |-> <<>>]
    ELSE IF bytes[1] < 128
    THEN LET r == utf8_decode(Tail(bytes), errors)
         IN  [ok |-> r.ok, chars |-> <<bytes[1]>> \o r.chars]
    ELSE IF bytes[1] \in 194..223 /\ Len(bytes) >= 2 /\ bytes[2] \in 128..191
    THEN LET r == utf8_decode(Tail(Tail(bytes)), errors)
         IN  [ok |-> r.ok,
              chars |-> <<(bytes[1] - 192) * 64 + (bytes[2] - 128)>>
                            \o r.chars]
    ELSE IF errors = "replace"
    THEN LET r == utf8_decode(Tail(bytes), errors)
         IN  [ok |-> r.ok, chars |-> <<65533>> \o r.chars]
    ELSE [ok |-> FALSE, chars |-> <<>>]

\* the latin-1 codec: one character per byte, never fails
latin1_decode(bytes) == bytes

RECURSIVE translate_newlines(_)
\* text-mode read with newline=None: "\r\n" and "\r" become "\n"
translate_newlines(chars) ==
    IF chars = <<>> THEN <<>>
    ELSE IF chars[1] = 13
    THEN <<10>> \o translate_newlines(
             IF Len(chars) >= 2 /\ chars[2] = 10 THEN Tail(Tail(chars))
             ELSE Tail(chars))
    ELSE <<chars[1]>> \o translate_newlines(Tail(chars))

\* open(full_path, 'r', encoding='utf-8', errors=...).read()
read_utf8(file, errors) ==
    IF file.io = "noread" THEN [raised |-> "OSError", chars |-> <<>>]
    ELSE LET d == utf8_decode(file.tail, errors)
         IN  IF d.ok
             THEN [raised |-> "none", chars |-> translate_newlines(d.chars)]
             ELSE [raised |-> "UnicodeDecodeError", chars |-> <<>>]

\* open(full_path, 'r', encoding='latin-1').read()
read_latin1(file) ==
    IF file.io = "noread" THEN [raised |-> "OSError", chars |-> <<>>]
    ELSE [raised |-> "none",
          chars |-> translate_newlines(latin1_decode(file.tail))]

\* f"{file_size / 1024:.1f}" in tenths of a KB: the quotient is exact in a
\* float, and the format rounds it to one decimal, ties to even
format_kb_tenths(file_size) ==
    LET q == (file_size * 10) \div 1024
        r == (file_size * 10) % 1024
    IN  IF r > 512 THEN q + 1
        ELSE IF r < 512 THEN q
        ELSE IF q % 2 = 0 THEN q ELSE q + 1

\* max_size_bytes: None (NoLimit) unless a positive limit was given
max_size_bytes_of(kb) == IF kb # NoLimit /\ kb > 0 THEN kb * 1024 ELSE NoLimit

exceeds_limit_ge(file_size, max_size_bytes) ==
    max_size_bytes # NoLimit /\ file_size >= max_size_bytes

\* max_size_bytes is not None and file_size > max_size_bytes
exceeds_limit(file_size, max_size_bytes) ==
    max_size_bytes # NoLimit /\ file_size > max_size_bytes

Block(lines, opens, binary, size, errors) ==
    [lines |-> lines, opens |-> opens, binary |-> binary, size |-> size,
     errors |-> errors]

render_file_abort_on_error(rel_path_header, full_path, file, kb) ==
    LET begin == Line("begin", rel_path_header, full_path, <<>>, 0, 0, <<>>)
        end == Line("end", rel_path_header, full_path, <<>>, 0, 0, <<>>)
    IN  IF file.io = "ok"
        THEN Block(<<begin, Line("content", <<>>, <<>>, <<>>, file.pad, 0,
                                 read_utf8(file, "replace").chars), end>>,
                   <<full_path, full_path>>, 0, 0, 0)
        ELSE Block(<<begin, PlainLine("error_reading")>>, <<full_path>>,
                   0, 0, 2)

\* one pass of the render loop body: the lines appended to output_lines,
\* the open() calls made, and the counter increments
render_file(rel_path_header, full_path, file, kb) ==
    LET begin == Line("begin", rel_path_header, full_path, <<>>, 0, 0, <<>>)
        end == Line("end", rel_path_header, full_path, <<>>, 0, 0, <<>>)
        file_size == getsize(file)
        utf8 == read_utf8(file, "replace")
        latin == read_latin1(file)
    IN  IF file.io = "nostat"
        THEN Block(<<begin, PlainLine("error_size"), end>>, <<>>, 0, 0, 1)
        ELSE IF exceeds_limit(file_size, max_size_bytes_of(kb))
        THEN Block(<<begin,
                     Line("size_skipped", <<>>, <<>>, <<>>,
                          format_kb_tenths(file_size), kb, <<>>),
                     end>>, <<>>, 0, 1, 0)
        ELSE IF file.io = "noopen"
        THEN Block(<<begin, PlainLine("error_binary_check"), end>>,
                   <<full_path>>, 0, 0, 1)
        ELSE IF null_in_chunk(file)
        THEN Block(<<begin, PlainLine("binary_skipped"), end>>,
                   <<full_path>>, 1, 0, 0)
        ELSE IF utf8.raised = "none"
        THEN Block(<<begin,
                     Line("content", <<>>, <<>>, <<>>, file.pad, 0,
                          utf8.chars),
                     end>>, <<full_path, full_path>>, 0, 0, 0)
        ELSE IF utf8.raised = "UnicodeDecodeError"
        THEN IF latin.raised = "none"
             THEN Block(<<begin, PlainLine("latin1_warning"),
                          Line("content", <<>>, <<>>, <<>>, file.pad, 0,
                               latin.chars),
                          end>>,
                        <<full_path, full_path, full_path>>, 0, 0, 0)
             ELSE Block(<<begin, PlainLine("error_reading_fallback"), end>>,
                        <<full_path, full_path, full_path>>, 0, 0, 1)
        ELSE Block(<<begin, PlainLine("error_reading"), end>>,
                   <<full_path, full_path>>, 0, 0, 1)

\* ------------------------------------------------ temporary directory
with_exit_leak(how) == how = "return_false"

\* TemporaryDirectory.__exit__: whether the directory is still on disk once
\* the with block is left by return or by exception
with_exit(how) == FALSE

\* the top-level except: shutil.rmtree if the directory is still there
manual_cleanup(still_exists) == IF still_exists THEN FALSE ELSE still_exists

\* --------------------------------------------------------------- walk
RECURSIVE keep_not_excluded(_, _)
\* [n for n in names if not is_excluded(os.path.join(root, n), repo_root)]
keep_not_excluded(root, names) ==
    IF names = <<>> THEN <<>>
    ELSE IF is_excluded(root \o <<Head(names)>>, repo_root_in_temp)
    THEN keep_not_excluded(root, Tail(names))
    ELSE <<Head(names)>> \o keep_not_excluded(root, Tail(names))

\* ------------------------------------------------------------- actions
Return(value, reason, how) ==
    /\ pc' = "done"
    /\ result' = value
    /\ exit_reason' = reason
    /\ temp_exists' = with_exit(how)

\* lines 28-34: the input path must exist and end in .zip
Validate ==
    /\ pc = "start"
    /\ \E exists \in BOOLEAN, is_zip \in BOOLEAN :
        IF ~exists
        THEN /\ pc' = "done" /\ result' = FALSE /\ exit_reason' = "not_found"
        ELSE IF ~is_zip
        THEN /\ pc' = "done" /\ result' = FALSE /\ exit_reason' = "not_zip"
        ELSE /\ pc' = "stage" /\ UNCHANGED <<result, exit_reason>>
    /\ UNCHANGED <<inputVars, temp_created, temp_exists, repo_root_in_temp,
                   repo_display_name, walkVars, output_lines, renderVars,
                   written>>

\* lines 50-66: enter the TemporaryDirectory and extract the archive into it
Extract ==
    /\ pc = "stage"
    /\ temp_created' = TRUE
    /\ \E outcome \in {"ok", "BadZipFile", "Exception"} :
        IF outcome = "ok"
        THEN /\ pc' = "resolve"
             /\ temp_exists' = TRUE
             /\ UNCHANGED <<result, exit_reason>>
        ELSE Return(FALSE,
                    IF outcome = "BadZipFile" THEN "bad_zip"
                    ELSE "extract_error",
                    "return_false")
    /\ UNCHANGED <<inputVars, repo_root_in_temp, repo_display_name, walkVars,
                   output_lines, renderVars, written>>

potential_dirs_with_hidden == scandir(ChildDirNames(<<>>))

\* the non-hidden top-level directories, in listdir order
potential_dirs ==
    SelectNames(scandir(ChildDirNames(<<>>)),
                { d \in ChildDirNames(<<>>) : Head(d) # "." })

\* lines 68-99: pick the repository root and its display name
ResolveRoot ==
    /\ pc = "resolve"
    /\ IF Len(potential_dirs) = 1
       THEN /\ repo_root_in_temp' = <<potential_dirs[1]>>
            /\ repo_display_name' = potential_dirs[1]
       ELSE /\ repo_root_in_temp' = <<>>
            /\ repo_display_name' = ZipBaseName
    /\ pc' = "prepare"
    /\ UNCHANGED <<result, exit_reason, inputVars, temp_created, temp_exists,
                   walkVars, output_lines, renderVars, written>>

\* lines 101-139: the report header, the counters, the materialised walk
BeginWalk ==
    /\ pc = "prepare"
    /\ output_lines' =
           <<PlainLine("title")>>
           \o (IF exclude_patterns # {}
               THEN <<PlainLine("applied_patterns")>> ELSE <<>>)
           \o (IF max_size_bytes_of(max_file_size_kb) # NoLimit
               THEN <<Line("applied_limit", <<>>, <<>>, <<>>,
                           max_file_size_kb, 0, <<>>)>>
               ELSE <<>>)
           \o <<PlainLine("rule"), PlainLine("structure_heading"),
                PlainLine("rule")>>
    /\ structure_lines' = <<>>
    /\ files_to_process' = <<>>
    /\ total_dirs' = 0
    /\ total_files' = 0
    /\ excluded_dirs_count' = 0
    /\ excluded_files_count' = 0
    /\ items_to_walk' = os_walk(repo_root_in_temp)
    /\ walk_i' = 1
    /\ pc' = "walk"
    /\ UNCHANGED <<result, exit_reason, inputVars, temp_created, temp_exists,
                   repo_root_in_temp, repo_display_name, renderVars, written>>

\* lines 141-197: one iteration of the loop over items_to_walk
WalkStep ==
    /\ pc = "walk"
    /\ walk_i <= Len(items_to_walk)
    /\ LET root == items_to_walk[walk_i].root
           dirs == items_to_walk[walk_i].dirs
           files == items_to_walk[walk_i].files
       IN  IF root # repo_root_in_temp /\ is_excluded(root, repo_root_in_temp)
           THEN /\ excluded_dirs_count' = excluded_dirs_count + 1 + Len(dirs)
                /\ excluded_files_count' = excluded_files_count + Len(files)
                /\ items_to_walk' =
                       [items_to_walk EXCEPT ![walk_i].dirs = <<>>,
                                             ![walk_i].files = <<>>]
                /\ UNCHANGED <<structure_lines, files_to_process, total_dirs,
                               total_files>>
           ELSE LET relative_path == relpath(root, repo_root_in_temp)
                    level == Len(relative_path)
                    dir_line ==
                        IF relative_path = <<>>
                        THEN Line("dir", <<>>, root, repo_display_name, 0, 0,
                                  <<>>)
                        ELSE Line("dir", <<>>, root, basename(root), level, 0,
                                  <<>>)
                    kept_dirs == keep_not_excluded(root, dirs)
                    filtered_files == keep_not_excluded(root, files)
                    sorted_dirs == list_sort(kept_dirs)
                    sorted_files == list_sort(filtered_files)
                    header(f) ==
                        IF relative_path = <<>> THEN f
                        ELSE JoinSlash(relative_path) \o <<"/">> \o f
                IN  /\ structure_lines' =
                           structure_lines \o <<dir_line>>
                           \o [k \in 1..Len(sorted_files) |->
                                 Line("file", <<>>,
                                      root \o <<sorted_files[k]>>,
                                      sorted_files[k], level + 1, 0, <<>>)]
                    /\ total_dirs' = total_dirs + 1
                    /\ excluded_dirs_count' =
                           excluded_dirs_count + Len(dirs) - Len(kept_dirs)
                    /\ excluded_files_count' =
                           excluded_files_count + Len(files)
                           - Len(filtered_files)
                    /\ items_to_walk' =
                           [items_to_walk EXCEPT ![walk_i].dirs = sorted_dirs,
                                                 ![walk_i].files = sorted_files]
                    /\ total_files' = total_files + Len(sorted_files)
                    /\ files_to_process' =
                           files_to_process
                           \o [k \in 1..Len(sorted_files) |->
                                 [rel_path_header |-> header(sorted_files[k]),
                                  full_path |-> root \o <<sorted_files[k]>>]]
    /\ walk_i' = walk_i + 1
    /\ UNCHANGED <<pc, result, exit_reason, inputVars, temp_created,
                   temp_exists, repo_root_in_temp, repo_display_name,
                   output_lines, renderVars, written>>

\* lines 199-215: the structure section, its summary, the render counters
EndWalk ==
    /\ pc = "walk"
    /\ walk_i > Len(items_to_walk)
    /\ output_lines' =
           output_lines \o structure_lines
           \o <<Line("summary_included", <<>>, <<>>, <<>>, total_dirs,
                     total_files, <<>>)>>
           \o (IF excluded_dirs_count > 0 \/ excluded_files_count > 0
               THEN <<Line("summary_excluded", <<>>, <<>>, <<>>,
                           excluded_dirs_count, excluded_files_count, <<>>)>>
               ELSE <<>>)
           \o <<PlainLine("rule"), PlainLine("contents_heading"),
                PlainLine("rule")>>
    /\ processed_files' = 0
    /\ skipped_binary' = 0
    /\ skipped_size' = 0
    /\ read_errors' = 0
    /\ pc' = "render"
    /\ UNCHANGED <<result, exit_reason, inputVars, temp_created, temp_exists,
                   repo_root_in_temp, repo_display_name, walkVars, open_calls,
                   written>>

\* lines 217-286: one iteration of the loop over files_to_process
RenderFile ==
    /\ pc = "render"
    /\ processed_files < Len(files_to_process)
    /\ LET rec == files_to_process[processed_files + 1]
           b == render_file(rec.rel_path_header, rec.full_path,
                            fs_files[rec.full_path], max_file_size_kb)
       IN  /\ output_lines' = output_lines \o b.lines
           /\ open_calls' = open_calls \o b.opens
           /\ skipped_binary' = skipped_binary + b.binary
           /\ skipped_size' = skipped_size + b.size
           /\ read_errors' = read_errors + b.errors
    /\ processed_files' = processed_files + 1
    /\ UNCHANGED <<pc, result, exit_reason, inputVars, temp_created,
                   temp_exists, repo_root_in_temp, repo_display_name, walkVars,
                   written>>

\* lines 288-322: write the report and return
Save ==
    /\ pc = "render"
    /\ processed_files = Len(files_to_process)
    /\ \E outcome \in {"ok", "IOError", "Exception"} :
        IF outcome = "ok"
        THEN /\ written' = output_lines
             /\ Return(TRUE, "success", "return_true")
        ELSE /\ written' = written
             /\ Return(FALSE,
                       IF outcome = "IOError" THEN "save_io_error"
                       ELSE "save_error",
                       "return_false")
    /\ UNCHANGED <<inputVars, temp_created, repo_root_in_temp,
                   repo_display_name, walkVars, output_lines, renderVars>>

\* lines 324-334: an exception leaves the with block and reaches the
\* top-level handler
TopLevelError ==
    /\ pc \in {"resolve", "prepare", "walk", "render"}
    /\ pc' = "done"
    /\ result' = FALSE
    /\ exit_reason' = "top_level_error"
    /\ temp_exists' = manual_cleanup(with_exit("exception"))
    /\ UNCHANGED <<inputVars, temp_created, repo_root_in_temp,
                   repo_display_name, walkVars, output_lines, renderVars,
                   written>>

Next ==
    \/ Validate
    \/ Extract
    \/ ResolveRoot
    \/ BeginWalk
    \/ WalkStep
    \/ EndWalk
    \/ RenderFile
    \/ Save
    \/ TopLevelError

\* ------------------------------------------------------ initial states
CandDirs == UNION { [1..n -> DirNames] : n \in 1..MaxDepth }

\* directory trees: every directory's parent is in the tree
TreeUniverse ==
    { T \in SUBSET CandDirs :
        /\ Cardinality(T) <= MaxDirs
        /\ \A d \in T : Len(d) = 1 \/ Parent(d) \in T }

FilePathsIn(T) == { d \o <<f>> : d \in T \cup {<<>>}, f \in FileNames }

TailUniverse == UNION { [1..n -> ByteUniverse] : n \in 0..MaxTail }

IoUniverse == { "ok", "nostat", "noopen", "noread" }

PlainText == [pad |-> 0, tail |-> <<65, 10>>, io |-> "ok"]

\* a text file, a binary file, and a text and a binary file of 1025 bytes
ContentSamples ==
    { [pad |-> 0, tail |-> <<65, 10>>],
      [pad |-> 0, tail |-> <<0, 65>>],
      [pad |-> 1024, tail |-> <<65>>],
      [pad |-> 1023, tail |-> <<0, 65>> ] }

InitRun ==
    /\ pc = "start"
    /\ result = "none"
    /\ exit_reason = "none"
    /\ temp_created = FALSE
    /\ temp_exists = FALSE
    /\ repo_root_in_temp = <<>>
    /\ repo_display_name = <<>>
    /\ items_to_walk = <<>>
    /\ walk_i = 0
    /\ structure_lines = <<>>
    /\ files_to_process = <<>>
    /\ total_dirs = 0
    /\ total_files = 0
    /\ excluded_dirs_count = 0
    /\ excluded_files_count = 0
    /\ output_lines = <<>>
    /\ processed_files = 0
    /\ skipped_binary = 0
    /\ skipped_size = 0
    /\ read_errors = 0
    /\ open_calls = <<>>
    /\ written = <<>>

\* archives of plain text files: any tree, any patterns, any scan order
Init ==
    /\ fs_dirs \in TreeUniverse
    /\ \E paths \in SUBSET FilePathsIn(fs_dirs) :
        /\ Cardinality(paths) <= MaxFiles
        /\ fs_files = [p \in paths |-> PlainText]
    /\ scan_order \in ScanOrders
    /\ exclude_patterns \in
           { P \in SUBSET PatternUniverse : Cardinality(P) <= MaxPatterns }
    /\ max_file_size_kb = NoLimit
    /\ InitRun

\* flat archives of up to MaxFiles files with mixed contents and I/O faults
InitRender ==
    /\ fs_dirs = {}
    /\ \E paths \in SUBSET FilePathsIn({}) :
        /\ Cardinality(paths) <= MaxFiles
        /\ fs_files \in
               [paths -> { [pad |-> c.pad, tail |-> c.tail, io |-> io] :
                           c \in ContentSamples, io \in IoUniverse }]
    /\ scan_order \in ScanOrders
    /\ exclude_patterns = {}
    /\ max_file_size_kb \in {NoLimit, 1}
    /\ InitRun

\* one file with any content of the universes, under any limit
InitContent ==
    /\ fs_dirs = {}
    /\ \E pad \in PadUniverse, tail \in TailUniverse, io \in IoUniverse :
        fs_files = [p \in { << <<"a", ".", "l">> >> } |->
                      [pad |-> pad, tail |-> tail, io |-> io]]
    /\ scan_order = "asc"
    /\ exclude_patterns = {}
    /\ max_file_size_kb \in LimitUniverse
    /\ InitRun

HiddenDirName == <<".", "g">>

\* top-level layouts: any of D, s and the hidden .g at the top level, D/s
\* below D or not, plain text files anywhere
InitRoot ==
    /\ \E top \in SUBSET { <<d>> : d \in DirNames \cup {HiddenDirName} },
          nested \in SUBSET { << <<"D">>, <<"s">> >> } :
        /\ nested # {} => << <<"D">> >> \in top
        /\ fs_dirs = top \cup nested
    /\ \E paths \in SUBSET FilePathsIn(fs_dirs) :
        /\ Cardinality(paths) <= MaxFiles
        /\ fs_files = [p \in paths |-> PlainText]
    /\ scan_order \in ScanOrders
    /\ exclude_patterns = {}
    /\ max_file_size_kb = NoLimit
    /\ InitRun

Spec == Init /\ [][Next]_vars

SpecRoot == InitRoot /\ [][Next]_vars

SpecRender == InitRender /\ [][Next]_vars

SpecContent == InitContent /\ [][Next]_vars

\* ============================================================= claims
\* ---- vocabulary of the claims, stated on the inputs and the output only

\* p lies strictly below the walk root
UnderRoot(p) == IsPrefix(repo_root_in_temp, p) /\ p # repo_root_in_temp

\* p's root-relative forward-slash path or its bare name glob-matches a pattern
MatchesPattern(p) ==
    \E pat \in exclude_patterns :
        \/ fnmatch(JoinSlash(relpath(p, repo_root_in_temp)), pat)
        \/ fnmatch(p[Len(p)], pat)

\* the walk loop has run over every item
WalkFinished == walk_i > Len(items_to_walk)

HasStructureLine(p, kind) ==
    \E i \in 1..Len(structure_lines) :
        structure_lines[i].kind = kind /\ structure_lines[i].path = p

InFilesToProcess(p) ==
    \E i \in 1..Len(files_to_process) : files_to_process[i].full_path = p

\* no directory strictly between the walk root and p matches a pattern
InIncludedDirectory(p) ==
    \A n \in (Len(repo_root_in_temp) + 1)..(Len(p) - 1) :
        ~MatchesPattern(SubSeq(p, 1, n))

\* C1: a directory other than the root that matches an exclusion pattern
\* contributes neither itself nor any descendant, at any depth, to the
\* structure lines or to the list of files to render
C1_ExcludedDirContributesNothing ==
    \A d \in fs_dirs :
        (UnderRoot(d) /\ MatchesPattern(d)) =>
            /\ \A i \in 1..Len(structure_lines) :
                   ~IsPrefix(d, structure_lines[i].path)
            /\ \A i \in 1..Len(files_to_process) :
                   ~IsPrefix(d, files_to_process[i].full_path)

\* C2: a file whose relative path or bare name matches a pattern gets no
\* structure line and no content block and is not counted as included; a
\* file matching no pattern, in an included directory, is listed once the
\* walk is over
C2_ExcludedFilesNeverListed ==
    /\ \A f \in DOMAIN fs_files :
        /\ (UnderRoot(f) /\ MatchesPattern(f)) =>
               /\ ~HasStructureLine(f, "file")
               /\ ~InFilesToProcess(f)
               /\ \A i \in 1..Len(output_lines) : output_lines[i].path # f
        /\ (WalkFinished /\ UnderRoot(f) /\ ~MatchesPattern(f)
                /\ InIncludedDirectory(f)) =>
               /\ HasStructureLine(f, "file")
               /\ InFilesToProcess(f)
    /\ total_files =
           Cardinality({ f \in DOMAIN fs_files : HasStructureLine(f, "file") })
    /\ total_files = Len(files_to_process)
    /\ processed_files <= total_files

\* C2 witness: under pattern *.l, a directory holding a.l and a.l.b has been
\* walked; a.l.b is listed and a.l is not
C2_Witness ==
    /\ WalkFinished
    /\ <<"*", ".", "l">> \in exclude_patterns
    /\ \E d \in fs_dirs \cup {<<>>} :
        /\ d \o << <<"a", ".", "l">> >> \in DOMAIN fs_files
        /\ d \o << <<"a", ".", "l", ".", "b">> >> \in DOMAIN fs_files
        /\ InFilesToProcess(d \o << <<"a", ".", "l", ".", "b">> >>)
        /\ ~InFilesToProcess(d \o << <<"a", ".", "l">> >>)

AbsentDirs ==
    { d \in fs_dirs : UnderRoot(d) /\ ~HasStructureLine(d, "dir") }

AbsentFiles ==
    { f \in DOMAIN fs_files : UnderRoot(f) /\ ~HasStructureLine(f, "file") }

\* C3: when the walk ends every excluded entry has been counted once: the
\* excluded-directories counter does not exceed the number of directories
\* absent from the structure listing, nor the excluded-files counter the
\* number of files absent from it
C3_ExcludedCountedOnce ==
    WalkFinished =>
        /\ excluded_dirs_count <= Cardinality(AbsentDirs)
        /\ excluded_files_count <= Cardinality(AbsentFiles)

\* C4: whatever order the file system enumerates a directory's children in,
\* sibling directories and sibling files are emitted in lexicographic order
\* by name, in the structure listing and in the list the content section is
\* rendered from
C4_SiblingsInLexicographicOrder ==
    /\ \A i, j \in 1..Len(structure_lines) :
        LET a == structure_lines[i]
            b == structure_lines[j]
        IN  (/\ i < j
             /\ a.kind = b.kind
             /\ UnderRoot(a.path) /\ UnderRoot(b.path)
             /\ Parent(a.path) = Parent(b.path))
            => StrLess(a.path[Len(a.path)], b.path[Len(b.path)])
    /\ \A i, j \in 1..Len(files_to_process) :
        LET a == files_to_process[i].full_path
            b == files_to_process[j].full_path
        IN  (i < j /\ Parent(a) = Parent(b))
            => StrLess(a[Len(a)], b[Len(b)])

\* ---- vocabulary of the render claims

\* the file behind the k-th entry of files_to_process
FileOf(k) == fs_files[files_to_process[k].full_path]

PathOf(k) == files_to_process[k].full_path

MarkerIdx(kind, p) ==
    { i \in 1..Len(output_lines) :
        output_lines[i].kind = kind /\ output_lines[i].path = p }

\* p's BEGIN FILE marker is followed by its END FILE marker
HasBlock(p) ==
    /\ MarkerIdx("begin", p) # {}
    /\ MarkerIdx("end", p) # {}
    /\ \A i \in MarkerIdx("begin", p), j \in MarkerIdx("end", p) : i < j

\* the lines between p's BEGIN FILE marker and its END FILE marker
BlockBody(p) ==
    LET i == CHOOSE x \in MarkerIdx("begin", p) : TRUE
        j == CHOOSE x \in MarkerIdx("end", p) : TRUE
    IN  SubSeq(output_lines, i + 1, j - 1)

BodyIs(p, body) == HasBlock(p) /\ BlockBody(p) = body

HasEarlyNull(file) ==
    \E i \in 1..Len(file.tail) : file.tail[i] = 0 /\ file.pad + i <= 1024

SizeOf(file) == file.pad + Len(file.tail)

LimitSet == max_file_size_kb > 0

OverLimit(file) == LimitSet /\ SizeOf(file) > max_file_size_kb * 1024

ValidUtf8(file) == utf8_decode(file.tail, "strict").ok

NoticeLine(kind) ==
    [kind |-> kind, hdr |-> <<>>, path |-> <<>>, name |-> <<>>, n1 |-> 0,
     n2 |-> 0, chars |-> <<>>]

\* a content line: pad characters "A" followed by chars
ContentLine(pad, chars) ==
    [kind |-> "content", hdr |-> <<>>, path |-> <<>>, name |-> <<>>,
     n1 |-> pad, n2 |-> 0, chars |-> chars]

EarlyNullRendered(ok) ==
    { k \in 1..processed_files : HasEarlyNull(FileOf(k)) /\ ok[k] }

\* the file can be sized and opened
Readable(file) == file.io \notin {"nostat", "noopen"}

\* C5 as stated: every rendered file (that can be sized and opened) with a
\* null byte in its first 1024 bytes carries the binary-skipped notice and
\* is counted as skipped binary, whatever its size is relative to the limit
C5_BinaryRegardlessOfSize ==
    /\ \A k \in 1..processed_files :
        (HasEarlyNull(FileOf(k)) /\ Readable(FileOf(k))) =>
            BodyIs(PathOf(k), <<NoticeLine("binary_skipped")>>)
    /\ skipped_binary =
           Cardinality(EarlyNullRendered(
               [k \in 1..processed_files |-> Readable(FileOf(k))]))

\* C5 amended: a rendered file (that can be sized and opened) whose size
\* does not exceed a positive limit, or any such file when no positive limit
\* is set, carries the binary-skipped notice and is counted as skipped
\* binary when a null byte lies in its first 1024 bytes; a file over the
\* limit carries the size notice instead and is not counted as binary
C5_BinaryWhenWithinLimit ==
    /\ \A k \in 1..processed_files :
        (HasEarlyNull(FileOf(k)) /\ Readable(FileOf(k))) =>
            IF OverLimit(FileOf(k))
            THEN /\ HasBlock(PathOf(k))
                 /\ Len(BlockBody(PathOf(k))) = 1
                 /\ BlockBody(PathOf(k))[1].kind = "size_skipped"
            ELSE BodyIs(PathOf(k), <<NoticeLine("binary_skipped")>>)
    /\ skipped_binary =
           Cardinality(EarlyNullRendered(
               [k \in 1..processed_files |->
                   Readable(FileOf(k)) /\ ~OverLimit(FileOf(k))]))

\* C5 witness: under a 1 KB limit, a file of exactly 1024 bytes whose last
\* byte is a null byte has been rendered as binary
C5_Witness ==
    /\ max_file_size_kb = 1
    /\ processed_files = 1
    /\ FileOf(1).pad = 1023
    /\ FileOf(1).tail = <<0>>
    /\ FileOf(1).io = "ok"
    /\ BodyIs(PathOf(1), <<NoticeLine("binary_skipped")>>)
    /\ skipped_binary = 1

\* the file is read as text: sized, within the limit, opened, no early null
ReadAsText(file) ==
    file.io = "ok" /\ ~OverLimit(file) /\ ~HasEarlyNull(file)

\* C6: a non-binary rendered file whose bytes are not valid UTF-8 has a
\* block made of the UTF-8 warning followed by its bytes decoded as Latin-1,
\* one character per byte
C6_Latin1Fallback ==
    \A k \in 1..processed_files :
        (ReadAsText(FileOf(k)) /\ ~ValidUtf8(FileOf(k))) =>
            BodyIs(PathOf(k),
                   <<NoticeLine("latin1_warning"),
                     ContentLine(FileOf(k).pad, FileOf(k).tail)>>)

\* C7: a rendered file within the limit, with no null byte in its first 1024
\* bytes and valid UTF-8 bytes, has between its markers exactly its decoded
\* content, character for character
C7_VerbatimRoundTrip ==
    \A k \in 1..processed_files :
        (ReadAsText(FileOf(k)) /\ ValidUtf8(FileOf(k))) =>
            BodyIs(PathOf(k),
                   <<ContentLine(FileOf(k).pad,
                                 utf8_decode(FileOf(k).tail, "strict").chars)>>)

\* ---- C8: the render loop

ContentsHeadingIdx ==
    { i \in 1..Len(output_lines) : output_lines[i].kind = "contents_heading" }

\* the lines after the FILE CONTENTS heading and its rule
ContentSection ==
    IF ContentsHeadingIdx = {} THEN <<>>
    ELSE SubSeq(output_lines, (CHOOSE i \in ContentsHeadingIdx : TRUE) + 2,
                Len(output_lines))

IsMarker(l) == l.kind \in {"begin", "end"}

ErrorKinds ==
    { "error_size", "error_binary_check", "error_reading",
      "error_reading_fallback" }

IsErrorNotice(l) == l.kind \in ErrorKinds

\* the I/O failure of the file is met: sizing fails, or the file is within
\* the limit and opening it fails, or it is read as text and the read fails
FaultHits(file) ==
    \/ file.io = "nostat"
    \/ file.io = "noopen" /\ ~OverLimit(file)
    \/ file.io = "noread" /\ ~OverLimit(file) /\ ~HasEarlyNull(file)

\* C8: the content section is one block per rendered file, in list order,
\* each opened by a BEGIN FILE and closed by an END FILE marker with the
\* file's header path; a file whose I/O failure is met has exactly an error
\* notice in its block and adds one to read_errors; the run that then saves
\* reports success with every file rendered
C8_OneBlockPerFile ==
    LET markers == SelectSeq(ContentSection, IsMarker)
    IN  /\ Len(markers) = 2 * processed_files
        /\ \A n \in 1..Len(markers) :
            /\ markers[n].kind = (IF n % 2 = 1 THEN "begin" ELSE "end")
            /\ markers[n].hdr =
                   files_to_process[(n + 1) \div 2].rel_path_header
            /\ markers[n].path = files_to_process[(n + 1) \div 2].full_path
        /\ ContentSection # <<>> =>
               /\ ContentSection[1].kind = "begin"
               /\ ContentSection[Len(ContentSection)].kind = "end"
        /\ \A k \in 1..processed_files :
            /\ HasBlock(PathOf(k))
            /\ Len(BlockBody(PathOf(k))) >= 1
            /\ IF FaultHits(FileOf(k))
               THEN /\ Len(BlockBody(PathOf(k))) = 1
                    /\ IsErrorNotice(BlockBody(PathOf(k))[1])
               ELSE \A i \in 1..Len(BlockBody(PathOf(k))) :
                        ~IsErrorNotice(BlockBody(PathOf(k))[i])
        /\ read_errors = Len(SelectSeq(ContentSection, IsErrorNotice))
        /\ read_errors =
               Cardinality({ k \in 1..processed_files : FaultHits(FileOf(k)) })
        /\ exit_reason = "success" =>
               /\ result = TRUE
               /\ processed_files = Len(files_to_process)
               /\ written = output_lines

\* C8 witness: a successful run of two files where the first met an I/O
\* failure and the second was rendered as text after it
C8_Witness ==
    /\ exit_reason = "success"
    /\ result = TRUE
    /\ Len(files_to_process) = 2
    /\ FaultHits(FileOf(1))
    /\ ~FaultHits(FileOf(2))
    /\ read_errors = 1
    /\ HasBlock(PathOf(2))
    /\ BlockBody(PathOf(2))[1].kind = "content"
    /\ written = output_lines

\* C9: once the temporary directory was created it is gone whenever the
\* function has returned, and it is on disk at every earlier position, the
\* render loop included
C9_TempDirReleasedOnEveryExit ==
    /\ (pc = "done" /\ temp_created) => ~temp_exists
    /\ (temp_created /\ pc # "done") => temp_exists
    /\ (pc = "render" /\ processed_files < Len(files_to_process))
           => temp_exists

\* C9 witness: a run that rendered files and then failed to write has
\* returned False with the temporary directory removed
C9_Witness ==
    /\ pc = "done"
    /\ temp_created
    /\ exit_reason = "save_io_error"
    /\ Len(open_calls) > 0
    /\ ~temp_exists

Opened(p) == \E i \in 1..Len(open_calls) : open_calls[i] = p

\* t is file_size expressed in tenths of a KB, to the nearest tenth
NearestTenthOfKB(t, file_size) ==
    /\ 1024 * t - 512 <= 10 * file_size
    /\ 10 * file_size <= 1024 * t + 512

\* C10: under a positive limit of L KB a rendered file (that can be sized)
\* of at most L*1024 bytes is not size-skipped and is opened; a file of more
\* than L*1024 bytes, L*1024+1 included, is never opened, its block is the
\* size notice citing its size and L, and it is counted as skipped for size
C10_SizeThresholdBoundary ==
    LimitSet =>
        /\ \A k \in 1..processed_files :
            FileOf(k).io # "nostat" =>
                IF SizeOf(FileOf(k)) <= max_file_size_kb * 1024
                THEN /\ HasBlock(PathOf(k))
                     /\ \A i \in 1..Len(BlockBody(PathOf(k))) :
                            BlockBody(PathOf(k))[i].kind # "size_skipped"
                     /\ Opened(PathOf(k))
                ELSE /\ HasBlock(PathOf(k))
                     /\ Len(BlockBody(PathOf(k))) = 1
                     /\ BlockBody(PathOf(k))[1].kind = "size_skipped"
                     /\ BlockBody(PathOf(k))[1].n2 = max_file_size_kb
                     /\ NearestTenthOfKB(BlockBody(PathOf(k))[1].n1,
                                         SizeOf(FileOf(k)))
                     /\ ~Opened(PathOf(k))
        /\ skipped_size =
               Cardinality({ k \in 1..processed_files :
                               /\ FileOf(k).io # "nostat"
                               /\ SizeOf(FileOf(k)) > max_file_size_kb * 1024 })

\* C10 witness: under a 2 KB limit a file of 2049 bytes has been skipped
\* for size without being opened
C10_Witness ==
    /\ max_file_size_kb = 2
    /\ processed_files = 1
    /\ SizeOf(FileOf(1)) = 2049
    /\ FileOf(1).io = "ok"
    /\ skipped_size = 1
    /\ ~Opened(PathOf(1))
    /\ HasBlock(PathOf(1))
    /\ BlockBody(PathOf(1))[1].kind = "size_skipped"
    /\ BlockBody(PathOf(1))[1].n1 = 20

\* C10 witness of the other side: under a 1 KB limit a file of exactly 1024
\* bytes has been opened and rendered as text
C10_WitnessAtLimit ==
    /\ max_file_size_kb = 1
    /\ processed_files = 1
    /\ SizeOf(FileOf(1)) = 1024
    /\ Opened(PathOf(1))
    /\ HasBlock(PathOf(1))
    /\ BlockBody(PathOf(1))[1].kind = "content"

\* ---- C11: root resolution

\* the top-level directories whose name does not start with a dot
NonHiddenTopLevel ==
    { d \in fs_dirs : Len(d) = 1 /\ d[1][1] # "." }

\* lines 68-96 have run
RootResolved == repo_display_name # <<>>

\* C11: with exactly one non-hidden top-level directory the walk root is
\* that directory and the display name its name; with none or several the
\* walk root is the extraction directory and the display name the archive's
\* base name, and once the walk is over every top-level directory that
\* matches no pattern is in the structure listing, one level below the root
C11_RootResolution ==
    RootResolved =>
        IF Cardinality(NonHiddenTopLevel) = 1
        THEN \A d \in NonHiddenTopLevel :
                 /\ repo_root_in_temp = d
                 /\ repo_display_name = d[1]
        ELSE /\ repo_root_in_temp = <<>>
             /\ repo_display_name = ZipBaseName
             /\ WalkFinished =>
                    \A d \in fs_dirs :
                        (Len(d) = 1 /\ ~MatchesPattern(d)) =>
                            \E i \in 1..Len(structure_lines) :
                                /\ structure_lines[i].kind = "dir"
                                /\ structure_lines[i].path = d
                                /\ structure_lines[i].name = d[1]
                                /\ structure_lines[i].n1 = 1

\* C11 witness: the top-level directories D and s have both been walked
\* from the extraction directory and both are in the structure listing
\* under the archive's base name
C11_Witness ==
    /\ WalkFinished
    /\ NonHiddenTopLevel = { << <<"D">> >>, << <<"s">> >> }
    /\ repo_root_in_temp = <<>>
    /\ structure_lines[1].name = ZipBaseName
    /\ HasStructureLine(<< <<"D">> >>, "dir")
    /\ HasStructureLine(<< <<"s">> >>, "dir")

\* C11 witness of the single-directory side: next to the hidden .g only D
\* is a candidate, and the walk starts in D under D's name
C11_WitnessSingle ==
    /\ WalkFinished
    /\ { d \in fs_dirs : Len(d) = 1 } = { << <<"D">> >>, <<HiddenDirName>> }
    /\ repo_root_in_temp = << <<"D">> >>
    /\ structure_lines[1].name = <<"D">>
    /\ ~HasStructureLine(<<HiddenDirName>>, "dir")

====
